---- MODULE Spec2Model ----
(***************************************************************************)
(* Sandboxed job execution service (src/backend/main.py) and its client   *)
(* (src/agents/agents/docker_runtime_client.py).                           *)
(*                                                                         *)
(* Spec       : the /run handler run_job, one request after another, with  *)
(*              the host filesystem and the container engine as state.     *)
(* ClientSpec : DockerRuntimeClient.runtime_node, one call after another,  *)
(*              against the wire protocol of the service.                  *)
(***************************************************************************)
EXTENDS Integers, Sequences, FiniteSets, TLC

VARIABLES
    dirs,       \* host filesystem: the set of existing directories (paths)
    files,      \* host filesystem: path -> content of every regular file
    engine,     \* container engine: per job, the container it was asked to run
    job         \* per request slot: the local state of one run_job invocation

VARIABLES
    cl,         \* DockerRuntimeClient: access_token and token_expiry
    cnow,       \* the client's clock, minutes
    call        \* the runtime_node call in progress: position, requests sent, result

VARIABLES
    auth,       \* the token endpoint and the token check: configuration, clock, last answers
    admitted,   \* the number of /run requests admitted in the current minute
    threads     \* callers that share one DockerRuntimeClient: where each one stands

svars == <<dirs, files, engine, job>>
cvars == <<cl, cnow, call>>
avars == <<auth, admitted, threads>>
vars == <<dirs, files, engine, job, cl, cnow, call, auth, admitted, threads>>

None == "None"
Missing == "<missing>"

(***************************************************************************)
(* Bounds and program constants                                            *)
(***************************************************************************)
\* seconds of container run time that pass in one Tick
TickSeconds == 150
\* ContainerConfig.execution_timeout, seconds
ExecutionTimeout == 300
\* TOKEN_EXPIRES, minutes
TOKEN_EXPIRES == 30
\* timedelta(minutes=25): how long the client takes a new token to last
CLIENT_TOKEN_MINUTES == 25
\* the client's clock stops here
MaxNow == 26

\* ContainerConfig.max_jobs_per_minute
MAX_JOBS_PER_MINUTE == 10
\* the service's clock stops here
MaxAuthNow == 32

\* values of OAUTH_USERNAME; usernames and passwords presented to /token
EnvUsernames == {"agent_user", "svc_user"}
LoginNames == {"agent_user", "svc_user", "ghost"}

Jobs == {"j1"}
\* the workers of the service when two requests are in progress at a time
ConcJobs == {"j1", "j2"}
\* os.urandom(4).hex(): the model draws the suffix from two values
Names == {"ab12", "cd34"}
ExitCodes == {0, 1, 2, 137}

(***************************************************************************)
(* Paths and the filesystem calls run_job makes                            *)
(***************************************************************************)
IsPrefix(a, b) == Len(a) <= Len(b) /\ SubSeq(b, 1, Len(a)) = a

RECURSIVE NormAcc(_, _)
NormAcc(p, acc) ==
    IF p = <<>> THEN acc
    ELSE IF Head(p) = ".."
         THEN NormAcc(Tail(p), IF acc = <<>> THEN <<>> ELSE SubSeq(acc, 1, Len(acc) - 1))
         ELSE NormAcc(Tail(p), Append(acc, Head(p)))

\* the directory entry a textual path resolves to
normpath(p) == NormAcc(p, <<>>)

\* os.path.abspath("."): the service's working directory
cwd == <<"srv">>

\* os.path.abspath(f"./runtime_sandbox_{os.urandom(4).hex()}")
TempDir(n) == Append(cwd, n)

\* os.path.join(temp_dir, file.filename): an absolute filename replaces temp_dir
path_join(base, name) ==
    IF name # <<>> /\ Head(name) = "/" THEN Tail(name) ELSE base \o name

\* os.path.dirname(path)
path_dirname(p) == IF p = <<>> THEN <<>> ELSE SubSeq(p, 1, Len(p) - 1)

\* os.path.exists(temp_dir)
path_exists(ds, fs, p) == normpath(p) \in ds \/ normpath(p) \in DOMAIN fs

\* shutil.rmtree(d): the directory and everything below it
rmtree(ds, fs, d) ==
    [dirs  |-> {p \in ds : ~IsPrefix(d, p)},
     files |-> [p \in {q \in DOMAIN fs : ~IsPrefix(d, q)} |-> fs[p]]]

\* os.makedirs(p, exist_ok=True): every prefix of p is created from the top;
\* the call raises at the first prefix that is a regular file
makedirs(ds, fs, p) ==
    LET pre(i) == normpath(SubSeq(p, 1, i))
        bad    == {i \in 1..Len(p) : pre(i) \in DOMAIN fs}
        stop   == IF bad = {} THEN Len(p) + 1
                  ELSE CHOOSE i \in bad : \A k \in bad : i <= k
    IN  [ok |-> bad = {}, dirs |-> ds \cup {pre(i) : i \in 1..(stop - 1)}]

\* mutant: the file is opened for writing and closed with nothing written
open_write_empty(ds, fs, p, content) ==
    LET q == normpath(p)
    IN  IF q \in ds \/ path_dirname(q) \notin ds
        THEN [ok |-> FALSE, files |-> fs]
        ELSE [ok |-> TRUE,
              files |-> [x \in DOMAIN fs \cup {q} |-> IF x = q THEN "" ELSE fs[x]]]

\* with open(file_path, "w") as f: f.write(content)
open_write(ds, fs, p, content) ==
    LET q == normpath(p)
    IN  IF q \in ds \/ path_dirname(q) \notin ds
        THEN [ok |-> FALSE, files |-> fs]
        ELSE [ok |-> TRUE,
              files |-> [x \in DOMAIN fs \cup {q} |-> IF x = q THEN content ELSE fs[x]]]

\* mutant: a write that raises is passed over and the loop goes on
WriteOne_swallow(st, temp_dir, file) ==
    LET file_path == path_join(temp_dir, file.filename)
        md == makedirs(st.dirs, st.files, path_dirname(file_path))
        ow == open_write(md.dirs, st.files, file_path, file.content)
    IN  IF ~md.ok \/ ~ow.ok THEN st
        ELSE [ok |-> TRUE, dirs |-> md.dirs, files |-> ow.files]

\* one iteration of the loop over job.files
WriteOne(st, temp_dir, file) ==
    LET file_path == path_join(temp_dir, file.filename)
        md == makedirs(st.dirs, st.files, path_dirname(file_path))
        ow == open_write(md.dirs, st.files, file_path, file.content)
    IN  IF ~st.ok THEN st
        ELSE IF ~md.ok THEN [ok |-> FALSE, dirs |-> md.dirs, files |-> st.files]
        ELSE [ok |-> ow.ok, dirs |-> md.dirs, files |-> ow.files]

RECURSIVE WriteFiles(_, _, _)
\* for file in job.files: ... ; stops at the first write that raises
WriteFiles(st, temp_dir, fl) ==
    IF fl = <<>> \/ ~st.ok THEN st
    ELSE WriteFiles(WriteOne(st, temp_dir, Head(fl)), temp_dir, Tail(fl))

(***************************************************************************)
(* Credential store and token checks                                       *)
(***************************************************************************)
\* SECRET_KEY with ALGORITHM HS256: the signature only the server can make
SECRET_KEY == "HS256:SECRET_KEY"

\* the bytes bcrypt takes of a password
BCRYPT_MAX_BYTES == 72

\* password_bytes[:72] when the password is longer than that
Truncate(password_bytes) ==
    IF Len(password_bytes) > BCRYPT_MAX_BYTES
    THEN SubSeq(password_bytes, 1, BCRYPT_MAX_BYTES) ELSE password_bytes

\* hash_password(password): bcrypt of the truncated bytes (the salt is kept
\* in the hash and plays no part in what verifies against it)
hash_password(password) == [scheme |-> "bcrypt", of |-> Truncate(password)]

\* mutant: the password is compared without being truncated first
verify_password_untruncated(plain_password, hashed_password) ==
    hashed_password = [scheme |-> "bcrypt", of |-> plain_password]

\* verify_password(plain_password, hashed_password)
verify_password(plain_password, hashed_password) ==
    hashed_password = [scheme |-> "bcrypt", of |-> Truncate(plain_password)]

\* os.getenv("OAUTH_PASSWORD"), as bytes
OAUTH_PASSWORD == <<7, 7, 1>>

\* the fake_users_db literal for given values of OAUTH_USERNAME, OAUTH_PASSWORD
users_db(oauth_username, oauth_password) ==
    [u \in {"agent_user"} |->
        [username |-> oauth_username,
         hashed_password |-> hash_password(oauth_password),
         disabled |-> FALSE]]

\* passwords of exactly 72 bytes and of 73: two that share their first 72 bytes,
\* one that differs from them in the 72nd
Long72 == [i \in 1..BCRYPT_MAX_BYTES |-> 7]
Long73a == Long72 \o <<1>>
Long73b == Long72 \o <<2>>
Long73c == [Long73a EXCEPT ![BCRYPT_MAX_BYTES] = 8]

\* the passwords presented to /token
Passwords == {OAUTH_PASSWORD, <<7, 7, 2>>, Long72, Long73a, Long73b, Long73c}

\* the credential store of a service configured with the given OAUTH_USERNAME
\* and OAUTH_PASSWORD, its one record enabled or disabled
StoreOf(config) ==
    [u \in {"agent_user"} |->
        [users_db(config.oauth_username, config.oauth_password)[u]
            EXCEPT !.disabled = config.disabled]]

Config(oauth_username, oauth_password, disabled) ==
    [oauth_username |-> oauth_username, oauth_password |-> oauth_password,
     disabled |-> disabled]

\* the configurations the token endpoint is examined under; the record in the
\* source has disabled False
Configurations ==
    {Config(u, OAUTH_PASSWORD, FALSE) : u \in EnvUsernames}
    \cup {Config("agent_user", OAUTH_PASSWORD, TRUE)}
    \cup {Config("agent_user", p, FALSE) : p \in {Long72, Long73a}}

\* fake_users_db, with OAUTH_USERNAME set to the record's key
fake_users_db == users_db("agent_user", OAUTH_PASSWORD)

\* the None that get_user returns for an unknown username
NoUser == [username |-> None, disabled |-> FALSE]

\* get_user(username)
get_user(db, username) == IF username \in DOMAIN db THEN db[username] ELSE NoUser

\* mutant: the caller's lifetime is ignored, every token gets the default one
create_access_token_default(data, expires_delta, now) ==
    [sub |-> data.sub, exp |-> now + 15, sig |-> SECRET_KEY]

\* create_access_token(data, expires_delta) at time now (minutes); a delta of 0
\* is falsy, like no delta at all, and gets the default of 15 minutes
create_access_token(data, expires_delta, now) ==
    [sub |-> data.sub,
     exp |-> now + (IF expires_delta # 0 THEN expires_delta ELSE 15),
     sig |-> SECRET_KEY]

\* mutant: the expiry of the token is not verified
jwt_decode_no_exp(token, now) ==
    IF token.sig # SECRET_KEY THEN [ok |-> FALSE, err |-> "InvalidSignatureError"]
    ELSE [ok |-> TRUE, sub |-> token.sub]

\* jwt.decode(token, SECRET_KEY, algorithms=[ALGORITHM]): the payload, or PyJWTError
jwt_decode(token, now) ==
    IF token.sig # SECRET_KEY THEN [ok |-> FALSE, err |-> "InvalidSignatureError"]
    ELSE IF token.exp <= now THEN [ok |-> FALSE, err |-> "ExpiredSignatureError"]
    ELSE [ok |-> TRUE, sub |-> token.sub]

NoToken == [sub |-> None, exp |-> 0, sig |-> None]

AuthFail(status, detail) == [ok |-> FALSE, status |-> status, detail |-> detail, user |-> NoUser]

\* get_current_user behind oauth2_scheme: the user, or the 401 it raises
get_current_user(db, token, now) ==
    LET payload == jwt_decode(token, now)
        cred    == AuthFail(401, "Could not validate credentials")
    IN  IF token = NoToken THEN AuthFail(401, "Not authenticated")
        ELSE IF ~payload.ok THEN cred
        ELSE IF payload.sub = None THEN cred
        ELSE IF get_user(db, payload.sub) = NoUser THEN cred
        ELSE [ok |-> TRUE, status |-> 200, detail |-> "", user |-> get_user(db, payload.sub)]

\* get_current_active_user
get_current_active_user(db, token, now) ==
    LET cu == get_current_user(db, token, now)
    IN  IF ~cu.ok THEN cu
        ELSE IF cu.user.disabled THEN AuthFail(400, "Inactive user")
        ELSE cu

\* authenticate_user(username, password): the user, or None
authenticate_user(db, username, password) ==
    LET user == get_user(db, username)
    IN  IF user = NoUser THEN NoUser
        ELSE IF ~verify_password(password, user.hashed_password) THEN NoUser
        ELSE user

\* data={"sub": user.username}
TokenSubject(user, form_username) == user.username

\* mutant: an unknown username gets an answer of its own
login_tells_which(db, username, password, now) ==
    LET user == authenticate_user(db, username, password)
    IN  IF get_user(db, username) = NoUser
        THEN [status |-> 401, detail |-> "Unknown user",
              www_authenticate |-> "Bearer", access_token |-> NoToken, user |-> NoUser]
        ELSE IF user = NoUser
        THEN [status |-> 401, detail |-> "Incorrect username or password",
              www_authenticate |-> "Bearer", access_token |-> NoToken, user |-> NoUser]
        ELSE [status |-> 200, detail |-> "", www_authenticate |-> "",
              access_token |-> create_access_token([sub |-> TokenSubject(user, username)],
                                                   TOKEN_EXPIRES, now),
              user |-> user]

\* login: the answer of POST /token at time now
login(db, username, password, now) ==
    LET user == authenticate_user(db, username, password)
    IN  IF user = NoUser
        THEN [status |-> 401, detail |-> "Incorrect username or password",
              www_authenticate |-> "Bearer", access_token |-> NoToken, user |-> NoUser]
        ELSE [status |-> 200, detail |-> "", www_authenticate |-> "",
              access_token |-> create_access_token([sub |-> TokenSubject(user, username)],
                                                   TOKEN_EXPIRES, now),
              user |-> user]

(***************************************************************************)
(* Requests the model submits to /run                                      *)
(***************************************************************************)
\* a token the service issued at minute 0, and the ways a token can be bad
IssuedToken == create_access_token([sub |-> "agent_user"], TOKEN_EXPIRES, 0)
RequestTokens ==
    {NoToken,
     IssuedToken,
     [IssuedToken EXCEPT !.sig = "forged"],
     [IssuedToken EXCEPT !.sub = None],
     [IssuedToken EXCEPT !.sub = "ghost"]}

\* minutes at which a request arrives: before and after IssuedToken expires
ArrivalTimes == {1, TOKEN_EXPIRES + 1}

Commands == {"", "pytest test_a.py -v", "python a.py", "tail -f /dev/null"}

\* the command never exits by itself
Hangs(command) == command = "tail -f /dev/null"

F(name, content) == [filename |-> name, content |-> content]

FileLists ==
    { <<>>,
      <<F(<<"a.py">>, "c1")>>,
      <<F(<<"pkg", "t.py">>, "c1"), F(<<"a.py">>, "c2")>>,
      <<F(<<"..", "main.py">>, "evil")>>,
      <<F(<<"a.py">>, "c1"), F(<<"/", "srv", "pwn", "x">>, "evil")>>,
      <<F(<<"pkg">>, "c1"), F(<<"pkg", "t.py">>, "c2")>>,
      <<F(<<"a.py">>, "c1"), F(<<"a.py">>, "c2")>>,
      <<F(<<"pkg", "..", "a.py">>, "c1"), F(<<"a.py">>, "c2")>>,
      <<F(<<"pkg", "t.py">>, "c1"), F(<<"pkg", "u.py">>, "c2")>> }

(***************************************************************************)
(* Responses                                                               *)
(***************************************************************************)
NoResp ==
    [status |-> 0, shape |-> "none", detail |-> "", success |-> FALSE,
     exit_code |-> 0, stdout |-> "", stderr |-> ""]

\* raise HTTPException(status_code=..., detail=...)
HTTPError(status, detail) ==
    [NoResp EXCEPT !.status = status, !.shape = "detail", !.detail = detail]

\* JobResult(success=..., exit_code=..., stdout=..., stderr=...)
JobResult(success, exit_code, stdout, stderr) ==
    [status |-> 200, shape |-> "JobResult", detail |-> "", success |-> success,
     exit_code |-> exit_code, stdout |-> stdout, stderr |-> stderr]

\* lines 305-313 of run_job: the result built from the container's exit status
ResultOf(exit_code, logs) == JobResult(exit_code = 0, exit_code, logs, "")

(***************************************************************************)
(* PYTHONPATH and the options of the container launch                      *)
(***************************************************************************)
Range(seq) == {seq[i] : i \in 1..Len(seq)}

\* "/app", the directory the workspace is mounted at
AppRoot == <<"/app">>

\* mutant: the directories are collected in a list
SetAdd_append(acc, x) == Append(acc, x)

\* unique_dirs.add(x): a set holds an element once
SetAdd(acc, x) == IF x \in Range(acc) THEN acc ELSE Append(acc, x)

RECURSIVE CollectDirs(_, _)
\* the additions the loop over job.files makes to unique_dirs
CollectDirs(fl, acc) ==
    IF fl = <<>> THEN acc
    ELSE LET directory == path_dirname(Head(fl).filename)
         IN  CollectDirs(Tail(fl),
                         IF directory # <<>> THEN SetAdd(acc, AppRoot \o directory)
                         ELSE acc)

\* unique_dirs after the loop, "/app" added first
unique_dirs(fl) == CollectDirs(fl, SetAdd(<<>>, AppRoot))

\* ":".join(unique_dirs): the entries in any order the set may iterate in
python_paths(fl) ==
    LET ud == unique_dirs(fl)
    IN  {[i \in 1..Len(ud) |-> ud[f[i]]] : f \in Permutations(1..Len(ud))}

\* ContainerConfig(): the resource policy, every field at its default
ContainerConfig ==
    [cpu_quota |-> 50000, cpu_period |-> 100000, cpu_shares |-> 512,
     memory_limit |-> "512m", memory_swap |-> "512m", memory_reservation |-> "256m",
     storage_limit_mb |-> 100, execution_timeout |-> ExecutionTimeout,
     enable_network |-> TRUE, pids_limit |-> 100,
     read_only_root |-> TRUE, tmpfs_size |-> "100m",
     drop_all_capabilities |-> TRUE, no_new_privileges |-> TRUE,
     max_jobs_per_minute |-> MAX_JOBS_PER_MINUTE]

\* what the engine gives a container for the options a caller leaves out
EngineDefaults ==
    [cpu_quota |-> 0, cpu_period |-> 0, cpu_shares |-> 0,
     mem_limit |-> "unlimited", memswap_limit |-> "unlimited",
     mem_reservation |-> "unlimited", pids_limit |-> 0,
     network_disabled |-> FALSE, read_only |-> FALSE, tmpfs |-> "none",
     cap_drop |-> {}, security_opt |-> {}]

\* the resource options that client.containers.run is called with
RunOptions(config) ==
    [cpu_quota |-> config.cpu_quota, cpu_period |-> config.cpu_period,
     cpu_shares |-> config.cpu_shares,
     mem_limit |-> config.memory_limit, memswap_limit |-> config.memory_swap,
     mem_reservation |-> config.memory_reservation,
     pids_limit |-> config.pids_limit]

\* the settings the container gets: the given options over the engine's defaults
ContainerSettings(options) ==
    [k \in DOMAIN EngineDefaults |->
        IF k \in DOMAIN options THEN options[k] ELSE EngineDefaults[k]]

\* lines 315-320 and 326-327: the launch error is raised as an HTTPException,
\* which the outer handler turns into another one with detail=str(e)
LaunchFailure(outcome) ==
    HTTPError(500,
        IF outcome = "ImageNotFound" THEN "500: Python 3.10 Docker image not found."
        ELSE "500: Docker API Error: <engine error text>")

(***************************************************************************)
(* run_job                                                                 *)
(***************************************************************************)
\* python_path: the PYTHONPATH entries; launches: calls of containers.run so far
IdleJob ==
    [pc |-> "idle", tok |-> NoToken, now |-> 0, command |-> None, files |-> <<>>,
     temp_dir |-> <<>>, python_path |-> <<>>, launches |-> 0, container |-> None,
     made |-> FALSE, resp |-> NoResp]

NoContainer ==
    [status |-> "none", code |-> 0, elapsed |-> 0, command |-> None,
     PYTHONPATH |-> <<>>, settings |-> EngineDefaults]

ServerInit ==
    /\ dirs = {<<>>, cwd}
    /\ files = [p \in {<<"srv", "main.py">>} |-> "orig"]
    /\ engine = [j \in Jobs |-> NoContainer]
    /\ job = [j \in Jobs |-> IdleJob]

\* lines 237-241: the workspace directory, replacing whatever has that name
MakeWorkspace(ds, fs, temp_dir) ==
    LET cleared == IF path_exists(ds, fs, temp_dir) THEN rmtree(ds, fs, temp_dir)
                   ELSE [dirs |-> ds, files |-> fs]
    IN  [dirs |-> cleared.dirs \cup {temp_dir}, files |-> cleared.files]

\* the request is authenticated, validated and, if admitted, given a workspace
Admit(j, tok, now, command, fl, n, docker_ok) ==
        LET au   == get_current_active_user(fake_users_db, tok, now)
            seen == [job[j] EXCEPT !.tok = tok, !.now = now]
            ws   == MakeWorkspace(dirs, files, TempDir(n))
        IN  IF ~au.ok
            THEN /\ job' = [job EXCEPT ![j] =
                        [seen EXCEPT !.pc = "done",
                                     !.resp = HTTPError(au.status, au.detail)]]
                 /\ UNCHANGED <<dirs, files, engine>>
            ELSE IF command = Missing
            THEN /\ job' = [job EXCEPT ![j] =
                        [seen EXCEPT !.pc = "done", !.command = Missing,
                                     !.resp = HTTPError(422, "field required")]]
                 /\ UNCHANGED <<dirs, files, engine>>
            ELSE IF ~docker_ok
            THEN /\ job' = [job EXCEPT ![j] =
                        [seen EXCEPT !.pc = "done", !.command = command,
                            !.resp = HTTPError(500,
                                "Docker is not running or not configured correctly.")]]
                 /\ UNCHANGED <<dirs, files, engine>>
            ELSE /\ job' = [job EXCEPT ![j] =
                        [seen EXCEPT !.pc = "stage", !.command = command, !.files = fl,
                                     !.temp_dir = TempDir(n), !.made = TRUE]]
                 /\ dirs' = ws.dirs
                 /\ files' = ws.files
                 /\ UNCHANGED engine

\* a request arrives at an idle worker
Begin(j) ==
    /\ job[j].pc = "idle"
    /\ \E tok \in RequestTokens, now \in ArrivalTimes,
          command \in Commands \cup {Missing}, fl \in FileLists,
          n \in Names, docker_ok \in BOOLEAN :
        Admit(j, tok, now, command, fl, n, docker_ok)
    /\ UNCHANGED <<cvars, avars>>

\* lines 247-266: every file is written; an error is turned into a 500 at line 327
Stage(j) ==
    /\ job[j].pc = "stage"
    /\ LET st == WriteFiles([ok |-> TRUE, dirs |-> dirs, files |-> files],
                            job[j].temp_dir, job[j].files)
       IN  /\ dirs' = st.dirs
           /\ files' = st.files
           /\ \E python_path \in python_paths(job[j].files) :
                 job' = [job EXCEPT ![j] =
                    IF st.ok THEN [@ EXCEPT !.pc = "launch", !.python_path = python_path]
                    ELSE [@ EXCEPT !.pc = "finally", !.resp = HTTPError(500, "OSError")]]
    /\ UNCHANGED engine
    /\ UNCHANGED <<cvars, avars>>

\* lines 272-303: client.containers.run(..., detach=True)
Launch(j) ==
    /\ job[j].pc = "launch"
    /\ \E outcome \in {"started", "ImageNotFound", "APIError"} :
        IF outcome = "started"
        THEN /\ engine' = [engine EXCEPT ![j] =
                    [status |-> "running", code |-> 0, elapsed |-> 0,
                     command |-> job[j].command,
                     PYTHONPATH |-> job[j].python_path,
                     settings |-> ContainerSettings(RunOptions(ContainerConfig))]]
             /\ job' = [job EXCEPT ![j] =
                    [@ EXCEPT !.pc = "wait", !.container = j, !.launches = @ + 1]]
        ELSE /\ job' = [job EXCEPT ![j] =
                    [@ EXCEPT !.pc = "finally", !.launches = @ + 1,
                              !.resp = LaunchFailure(outcome)]]
             /\ UNCHANGED engine
    /\ UNCHANGED <<dirs, files>>
    /\ UNCHANGED <<cvars, avars>>

\* the container's command ends by itself
ContainerExit(j) ==
    /\ engine[j].status = "running"
    /\ ~Hangs(engine[j].command)
    /\ \E code \in ExitCodes :
        engine' = [engine EXCEPT ![j] = [@ EXCEPT !.status = "exited", !.code = code]]
    /\ UNCHANGED <<dirs, files, job>>
    /\ UNCHANGED <<cvars, avars>>

\* time passes for a running container
Tick(j) ==
    /\ engine[j].status = "running"
    /\ engine[j].elapsed <= ExecutionTimeout
    /\ engine' = [engine EXCEPT ![j] = [@ EXCEPT !.elapsed = @ + TickSeconds]]
    /\ UNCHANGED <<dirs, files, job>>
    /\ UNCHANGED <<cvars, avars>>

\* container.wait(): no timeout is passed, the call returns when the container exits
WaitReturns(j) == engine[j].status = "exited"

\* lines 305-324: wait, read the logs, build the result; either call may raise
Complete(j) ==
    /\ job[j].pc = "wait"
    /\ \/ /\ WaitReturns(j)
          /\ job' = [job EXCEPT ![j] =
                 [@ EXCEPT !.pc = "finally", !.resp = ResultOf(engine[j].code, "logs")]]
       \/ /\ \E err \in {"wait: APIError", "logs: APIError", "wait: ConnectionError"} :
                 (err = "logs: APIError" => WaitReturns(j))
                 /\ job' = [job EXCEPT ![j] =
                        [@ EXCEPT !.pc = "finally", !.resp = HTTPError(500, err)]]
    /\ UNCHANGED <<dirs, files, engine>>
    /\ UNCHANGED <<cvars, avars>>

\* mutant: remove() without force, which the engine refuses for a running container
RemoveContainer_unforced(eng, container) ==
    IF container # None /\ eng[container].status = "exited"
    THEN [eng EXCEPT ![container] = [@ EXCEPT !.status = "removed"]]
    ELSE eng

\* lines 331-335: if container: container.remove(force=True)
RemoveContainer(eng, container) ==
    IF container # None
    THEN [eng EXCEPT ![container] = [@ EXCEPT !.status = "removed"]]
    ELSE eng

\* mutant: os.rmdir instead of shutil.rmtree, which fails on a directory with entries
RemoveWorkspace_rmdir(ds, fs, temp_dir) ==
    IF /\ path_exists(ds, fs, temp_dir)
       /\ \A p \in ds \cup DOMAIN fs : IsPrefix(temp_dir, p) => p = temp_dir
    THEN rmtree(ds, fs, temp_dir)
    ELSE [dirs |-> ds, files |-> fs]

\* lines 336-337: if os.path.exists(temp_dir): shutil.rmtree(temp_dir)
RemoveWorkspace(ds, fs, temp_dir) ==
    IF path_exists(ds, fs, temp_dir) THEN rmtree(ds, fs, temp_dir)
    ELSE [dirs |-> ds, files |-> fs]

\* the finally block, after which the response goes out
Finally(j) ==
    /\ job[j].pc = "finally"
    /\ engine' = RemoveContainer(engine, job[j].container)
    /\ LET rw == RemoveWorkspace(dirs, files, job[j].temp_dir)
       IN  dirs' = rw.dirs /\ files' = rw.files
    /\ job' = [job EXCEPT ![j] = [@ EXCEPT !.pc = "done"]]
    /\ UNCHANGED <<cvars, avars>>

\* the response has gone out; the worker takes the next request
Reset(j) ==
    /\ job[j].pc = "done"
    /\ job' = [job EXCEPT ![j] = IdleJob]
    /\ engine' = [engine EXCEPT ![j] = NoContainer]
    /\ UNCHANGED <<dirs, files>>
    /\ UNCHANGED <<cvars, avars>>

Next ==
    \E j \in Jobs :
        \/ Begin(j)
        \/ Stage(j)
        \/ Launch(j)
        \/ ContainerExit(j)
        \/ Tick(j)
        \/ Complete(j)
        \/ Finally(j)
        \/ Reset(j)

(***************************************************************************)
(* DockerRuntimeClient                                                     *)
(***************************************************************************)
\* token_expiry = None
NoExpiry == 0 - 1

\* what a POST /token can come back with
TokenOutcomes == {"ok", "401", "RequestError", "badjson"}

\* what a POST /run can come back with: a status and a body, or no response at all
HttpResponse(status, json_ok, body, text) ==
    [kind |-> "http", status |-> status, json_ok |-> json_ok, body |-> body, text |-> text]

\* the answer that carries an HTTPException of the service; its text is the
\* JSON of the detail
ErrorResponse(resp) == HttpResponse(resp.status, TRUE, resp, resp.detail)

TransportError ==
    [kind |-> "RequestError", status |-> 0, json_ok |-> FALSE, body |-> NoResp,
     text |-> "connection failed"]

RunResponses ==
    {HttpResponse(200, TRUE, ResultOf(c, "logs"), "json") : c \in ExitCodes}
    \cup {HttpResponse(200, FALSE, NoResp, "<html>")}
    \cup {HttpResponse(st, TRUE, HTTPError(st, "detail"), "detail") : st \in {400, 401, 422, 500}}
    \cup {ErrorResponse(LaunchFailure(outcome)) : outcome \in {"ImageNotFound", "APIError"}}
    \cup {TransportError}

\* mutant: the failure result without the text of the answer
FailureResult_no_text(stderr) ==
    [shape |-> "JobResult", success |-> FALSE, exit_code |-> 0 - 1, stdout |-> "",
     stderr |-> ""]

\* the dictionaries runtime_node puts into execution_results
NoResult ==
    [shape |-> "none", success |-> FALSE, exit_code |-> 0, stdout |-> "", stderr |-> ""]

\* lines 106-111: {"success": False, "error": "No command provided by Task Agent."}
NoCommandResult == [NoResult EXCEPT !.shape = "error"]

\* lines 176-181 and 188-193
FailureResult(stderr) ==
    [shape |-> "JobResult", success |-> FALSE, exit_code |-> 0 - 1, stdout |-> "",
     stderr |-> stderr]

\* response.json() of a 200 answer of /run
BodyResult(body) ==
    [shape |-> "JobResult", success |-> body.success, exit_code |-> body.exit_code,
     stdout |-> body.stdout, stderr |-> body.stderr]

\* lines 142-146: if result.get("exit_code") == 1: result["success"] = True
Reclassify(result) ==
    IF result.exit_code = 1 THEN [result EXCEPT !.success = TRUE] ELSE result

\* mutant: every HTTP error status is taken for an authorization failure
NeedsReauth_any_error(status) == status >= 400

\* line 154: if e.response.status_code == 401
NeedsReauth(status) == status = 401

\* mutant: a successful answer replaces the token and leaves the expiry as it was
_authenticate_token_only(c, now, outcome) ==
    IF outcome = "ok"
    THEN [ok |-> TRUE, posted |-> TRUE,
          cl |-> [access_token |->
                      create_access_token([sub |-> "agent_user"], TOKEN_EXPIRES, now),
                  token_expiry |-> c.token_expiry]]
    ELSE [ok |-> FALSE, posted |-> TRUE, cl |-> c]

\* mutant: the client takes the token to last as long as the server does
_authenticate_no_margin(c, now, outcome) ==
    IF outcome = "ok"
    THEN [ok |-> TRUE, posted |-> TRUE,
          cl |-> [access_token |->
                      create_access_token([sub |-> "agent_user"], TOKEN_EXPIRES, now),
                  token_expiry |-> now + TOKEN_EXPIRES]]
    ELSE [ok |-> FALSE, posted |-> TRUE, cl |-> c]

\* _authenticate: POST /token; on success both cached fields are replaced
_authenticate(c, now, outcome) ==
    IF outcome = "ok"
    THEN [ok |-> TRUE, posted |-> TRUE,
          cl |-> [access_token |->
                      create_access_token([sub |-> "agent_user"], TOKEN_EXPIRES, now),
                  token_expiry |-> now + CLIENT_TOKEN_MINUTES]]
    ELSE [ok |-> FALSE, posted |-> TRUE, cl |-> c]

\* mutant: the token counts as good at the very minute of its tracked expiry
_is_token_expired_late(c, now) ==
    \/ c.access_token = NoToken
    \/ c.token_expiry = NoExpiry
    \/ now > c.token_expiry

\* _is_token_expired
_is_token_expired(c, now) ==
    \/ c.access_token = NoToken
    \/ c.token_expiry = NoExpiry
    \/ now >= c.token_expiry

\* _ensure_authenticated, as called by _get_auth_headers
_ensure_authenticated(c, now, outcome) ==
    IF _is_token_expired(c, now) THEN _authenticate(c, now, outcome)
    ELSE [ok |-> TRUE, posted |-> FALSE, cl |-> c]

TokenRequest == [url |-> "/token", token |-> NoToken, payload |-> None]
RunRequest(token, payload) == [url |-> "/run", token |-> token, payload |-> payload]

\* the requests of the current call that went to the given url
Sent(url) == {i \in 1..Len(call.sent) : call.sent[i].url = url}

\* entry_expiry: self.token_expiry as runtime_node found it
IdleCall ==
    [pc |-> "idle", command |-> None, entry_expiry |-> NoExpiry, sent |-> <<>>,
     first |-> "none", reauth |-> "none", second |-> "none", result |-> NoResult]

\* the callers that share the client
Callers == {"t1", "t2"}

\* stale: the token_expiry this caller found expired; refreshed: it has replaced
\* the token; token: the token in the headers it has built
IdleThread ==
    [pc |-> "idle", stale |-> NoExpiry, refreshed |-> FALSE, token |-> NoToken]

\* __init__: the client exists only if its first _authenticate succeeded
ClientInit ==
    /\ cnow = 0
    /\ cl = _authenticate([access_token |-> NoToken, token_expiry |-> NoExpiry], 0, "ok").cl
    /\ call = IdleCall

\* no POST /token answered yet, no token presented yet
NoLogin ==
    [status |-> 0, detail |-> "", www_authenticate |-> "", access_token |-> NoToken,
     user |-> NoUser]
NoCheck == [ok |-> FALSE, status |-> 0, detail |-> "", user |-> NoUser]

\* the form of a POST /token: none yet
NoForm == [username |-> None, password |-> <<>>]

\* the service started with the given configuration
AuthStart(config) ==
    [oauth_username |-> config.oauth_username, oauth_password |-> config.oauth_password,
     disabled |-> config.disabled, now |-> 0, form |-> NoForm, login |-> NoLogin,
     issued_at |-> 0, check |-> NoCheck, checked_at |-> 0]

\* the credential store of the running service
AuthDb == StoreOf(Config(auth.oauth_username, auth.oauth_password, auth.disabled))

\* the service of Spec and ClientSpec has OAUTH_USERNAME set to the record's key
Init ==
    /\ ServerInit
    /\ ClientInit
    /\ auth = AuthStart(Config("agent_user", OAUTH_PASSWORD, FALSE))
    /\ admitted = 0
    /\ threads = [t \in Callers |-> IdleThread]

\* the service under any of the configurations
AuthInit ==
    /\ ServerInit
    /\ ClientInit
    /\ \E config \in Configurations : auth = AuthStart(config)
    /\ admitted = 0
    /\ threads = [t \in Callers |-> IdleThread]

\* what the outcome of a POST /run is called in call.first and call.second
OutcomeName(r) ==
    IF r.kind = "RequestError" THEN "RequestError"
    ELSE IF r.status = 200 THEN (IF r.json_ok THEN "200" ELSE "200 badjson")
    ELSE IF r.status = 401 THEN "401"
    ELSE "HTTP error"

\* time passes between two calls
ClientAdvance ==
    /\ call.pc = "idle"
    /\ cnow < MaxNow
    /\ cnow' = cnow + 1
    /\ UNCHANGED <<cl, call>>
    /\ UNCHANGED <<svars, avars>>

\* mutant: the safety check on the command is never taken
NoCommand_never(command) == FALSE

\* line 105: if not command
NoCommand(command) == command = ""

\* lines 99-125: runtime_node is entered; an empty command returns at once
RuntimeNode ==
    /\ call.pc = "idle"
    /\ \E command \in Commands :
        call' = IF NoCommand(command)
                THEN [IdleCall EXCEPT !.pc = "returned", !.command = command,
                                      !.entry_expiry = cl.token_expiry,
                                      !.result = NoCommandResult]
                ELSE [IdleCall EXCEPT !.pc = "headers", !.command = command,
                                      !.entry_expiry = cl.token_expiry]
    /\ UNCHANGED <<cl, cnow>>
    /\ UNCHANGED <<svars, avars>>

\* line 129: headers = self._get_auth_headers(); the Exception that
\* _authenticate raises is none of the two that runtime_node catches
GetAuthHeaders ==
    /\ call.pc = "headers"
    /\ \E outcome \in TokenOutcomes :
        LET a == _ensure_authenticated(cl, cnow, outcome)
            sent == IF a.posted THEN Append(call.sent, TokenRequest) ELSE call.sent
        IN  /\ cl' = a.cl
            /\ call' = [call EXCEPT !.sent = sent,
                                    !.pc = IF a.ok THEN "post" ELSE "raised"]
    /\ UNCHANGED cnow
    /\ UNCHANGED <<svars, avars>>

\* lines 138-150 and the two except clauses: what runtime_node does with the
\* answer r to its first POST /run
FirstAnswer(posted, r) ==
    IF r.kind = "RequestError"
    THEN [posted EXCEPT !.pc = "returned",
              !.result = FailureResult("Failed to connect to runtime service")]
    ELSE IF r.status = 200
    THEN IF r.json_ok
         THEN [posted EXCEPT !.pc = "returned", !.result = Reclassify(BodyResult(r.body))]
         ELSE [posted EXCEPT !.pc = "raised"]
    ELSE IF NeedsReauth(r.status)
    THEN [posted EXCEPT !.pc = "reauth"]
    ELSE [posted EXCEPT !.pc = "returned", !.result = FailureResult(r.text)]

\* lines 131-137: the first POST /run, and its answer
Post ==
    /\ call.pc = "post"
    /\ \E r \in RunResponses :
        LET posted == [call EXCEPT !.sent = Append(@, RunRequest(cl.access_token, call.command)),
                                   !.first = OutcomeName(r)]
        IN  call' = FirstAnswer(posted, r)
    /\ UNCHANGED <<cl, cnow>>
    /\ UNCHANGED <<svars, avars>>

\* line 157: self._authenticate() after a 401; whatever it raises is caught at
\* line 170 and the call falls through to the failure result of lines 176-182
Reauthenticate ==
    /\ call.pc = "reauth"
    /\ \E outcome \in TokenOutcomes :
        LET a == _authenticate(cl, cnow, outcome)
            posted == [call EXCEPT !.sent = Append(@, TokenRequest),
                                   !.reauth = IF a.ok THEN "ok" ELSE "failed"]
        IN  /\ cl' = a.cl
            /\ call' = IF a.ok THEN [posted EXCEPT !.pc = "retry"]
                       ELSE [posted EXCEPT !.pc = "returned",
                                           !.result = FailureResult("detail")]
    /\ UNCHANGED cnow
    /\ UNCHANGED <<svars, avars>>

\* mutant: a 401 on the retry starts another round of re-authentication
AfterRetry_again(r) ==
    IF r.kind = "http" /\ r.status = 401 THEN "reauth" ELSE "returned"

\* where runtime_node stands after the retried POST /run has been answered
AfterRetry(r) == "returned"

\* lines 159-171: new headers, the one retry, and its answer; every exception
\* is caught at line 170
Retry ==
    /\ call.pc = "retry"
    /\ \E outcome \in TokenOutcomes, r \in RunResponses :
        LET a == _ensure_authenticated(cl, cnow, outcome)
            s1 == IF a.posted THEN Append(call.sent, TokenRequest) ELSE call.sent
            posted == [call EXCEPT !.sent = Append(s1, RunRequest(a.cl.access_token, call.command)),
                                   !.second = OutcomeName(r)]
        IN  /\ cl' = a.cl
            /\ call' =
                IF ~a.ok
                THEN [call EXCEPT !.sent = s1, !.pc = "returned",
                                  !.result = FailureResult("detail")]
                ELSE IF r.kind = "http" /\ r.status = 200 /\ r.json_ok
                THEN [posted EXCEPT !.pc = "returned", !.result = BodyResult(r.body)]
                ELSE IF AfterRetry(r) = "returned"
                THEN [posted EXCEPT !.pc = "returned", !.result = FailureResult("detail")]
                ELSE [posted EXCEPT !.pc = AfterRetry(r)]
    /\ UNCHANGED cnow
    /\ UNCHANGED <<svars, avars>>

\* the caller has the result, or the exception
CallEnds ==
    /\ call.pc \in {"returned", "raised"}
    /\ call' = IdleCall
    /\ UNCHANGED <<cl, cnow>>
    /\ UNCHANGED <<svars, avars>>

ClientNext ==
    \/ ClientAdvance
    \/ RuntimeNode
    \/ GetAuthHeaders
    \/ Post
    \/ Reauthenticate
    \/ Retry
    \/ CallEnds

(***************************************************************************)
(* AgentWorkflow.runtime_node and the client it constructs,                *)
(* src/agents/tools/docker_runtime_client.py                               *)
(***************************************************************************)
\* tools client, line 50: self.client.post(f"{self.base_url}/run",
\* json=job_payload, timeout=300.0), no headers argument
ToolsRunRequest(payload) == RunRequest(NoToken, payload)

\* tools client, lines 51-69: what _run does with the answer r
ToolsAnswer(posted, r) ==
    IF r.kind = "RequestError"
    THEN [posted EXCEPT !.pc = "returned",
              !.result = FailureResult("Failed to connect to runtime service")]
    ELSE IF r.status = 200
    THEN IF r.json_ok
         THEN [posted EXCEPT !.pc = "returned", !.result = Reclassify(BodyResult(r.body))]
         ELSE [posted EXCEPT !.pc = "raised"]
    ELSE [posted EXCEPT !.pc = "returned", !.result = FailureResult(r.text)]

\* workflow.py lines 29-65: the node takes the command from the search results
\* and calls self.runtime_client._run(command=..., files=...)
WorkflowRuntimeNode ==
    /\ call.pc = "idle"
    /\ \E command \in Commands :
        call' = [IdleCall EXCEPT !.pc = "_run", !.command = command,
                                 !.entry_expiry = cl.token_expiry]
    /\ UNCHANGED <<cl, cnow>>
    /\ UNCHANGED <<svars, avars>>

\* tools client, _run: the POST /run and its answer
ToolsRun ==
    /\ call.pc = "_run"
    /\ \E r \in RunResponses :
        LET posted == [call EXCEPT !.sent = Append(@, ToolsRunRequest(call.command)),
                                   !.first = OutcomeName(r)]
        IN  call' = ToolsAnswer(posted, r)
    /\ UNCHANGED <<cl, cnow>>
    /\ UNCHANGED <<svars, avars>>

WorkflowNext ==
    \/ ClientAdvance
    \/ WorkflowRuntimeNode
    \/ ToolsRun
    \/ CallEnds

(***************************************************************************)
(* Two callers of runtime_node on one DockerRuntimeClient                  *)
(***************************************************************************)
\* a caller enters runtime_node with a command and reaches line 129
SharedEnter(t) ==
    /\ threads[t].pc = "idle"
    /\ threads' = [threads EXCEPT ![t] = [IdleThread EXCEPT !.pc = "check"]]
    /\ UNCHANGED <<svars, cvars, auth, admitted>>

\* line 76: if self._is_token_expired(); nothing is held between this read and
\* the POST /token that follows it
SharedCheck(t) ==
    /\ threads[t].pc = "check"
    /\ threads' = [threads EXCEPT ![t] =
            IF _is_token_expired(cl, cnow)
            THEN [@ EXCEPT !.pc = "authenticate", !.stale = cl.token_expiry]
            ELSE [@ EXCEPT !.pc = "headers"]]
    /\ UNCHANGED <<svars, cvars, auth, admitted>>

\* line 78: self._authenticate(); what it raises ends the caller's call
SharedAuthenticate(t) ==
    /\ threads[t].pc = "authenticate"
    /\ \E outcome \in TokenOutcomes :
        LET a == _authenticate(cl, cnow, outcome)
        IN  /\ cl' = a.cl
            /\ threads' = [threads EXCEPT ![t] =
                    IF a.ok THEN [@ EXCEPT !.pc = "headers", !.refreshed = TRUE]
                    ELSE IdleThread]
    /\ UNCHANGED <<svars, cnow, call, auth, admitted>>

\* lines 83-86: the headers are built from self.access_token
SharedHeaders(t) ==
    /\ threads[t].pc = "headers"
    /\ threads' = [threads EXCEPT ![t] = [@ EXCEPT !.pc = "post", !.token = cl.access_token]]
    /\ UNCHANGED <<svars, cvars, auth, admitted>>

\* lines 131-136: the POST /run goes out with these headers
SharedPost(t) ==
    /\ threads[t].pc = "post"
    /\ threads' = [threads EXCEPT ![t] = [@ EXCEPT !.pc = "posted"]]
    /\ UNCHANGED <<svars, cvars, auth, admitted>>

\* the caller's call is over
SharedReturn(t) ==
    /\ threads[t].pc = "posted"
    /\ threads' = [threads EXCEPT ![t] = IdleThread]
    /\ UNCHANGED <<svars, cvars, auth, admitted>>

\* time passes, whatever the callers are doing
SharedAdvance ==
    /\ cnow < MaxNow
    /\ cnow' = cnow + 1
    /\ UNCHANGED <<svars, cl, call, auth, admitted, threads>>

SharedNext ==
    \/ \E t \in Callers :
            \/ SharedEnter(t)
            \/ SharedCheck(t)
            \/ SharedAuthenticate(t)
            \/ SharedHeaders(t)
            \/ SharedPost(t)
            \/ SharedReturn(t)
    \/ SharedAdvance

(***************************************************************************)
(* Two workers of run_job side by side, and the admissions of a minute    *)
(***************************************************************************)
ConcInit ==
    /\ dirs = {<<>>, cwd}
    /\ files = [p \in {<<"srv", "main.py">>} |-> "orig"]
    /\ engine = [j \in ConcJobs |-> NoContainer]
    /\ job = [j \in ConcJobs |-> IdleJob]
    /\ ClientInit
    /\ auth = AuthStart(Config("agent_user", OAUTH_PASSWORD, FALSE))
    /\ admitted = 0
    /\ threads = [t \in Callers |-> IdleThread]

\* a valid request arrives at an idle worker and is admitted; nothing in
\* run_job looks at how many were admitted before it
ConcBegin(j) ==
    /\ job[j].pc = "idle"
    /\ admitted <= MAX_JOBS_PER_MINUTE
    /\ \E n \in Names :
        Admit(j, IssuedToken, 1, "python a.py", <<F(<<"a.py">>, "c1")>>, n, TRUE)
    /\ admitted' = admitted + 1
    /\ UNCHANGED <<cvars, auth, threads>>

\* the next minute begins
MinuteRolls ==
    /\ admitted > 0
    /\ admitted' = 0
    /\ UNCHANGED <<svars, cvars, auth, threads>>

ConcNext ==
    \/ \E j \in ConcJobs :
            \/ ConcBegin(j)
            \/ Stage(j)
            \/ Launch(j)
            \/ ContainerExit(j)
            \/ Complete(j)
            \/ Finally(j)
            \/ Reset(j)
    \/ MinuteRolls

(***************************************************************************)
(* POST /token and the token check of /run, over time                     *)
(***************************************************************************)
\* POST /token with a username and a password
PostToken ==
    /\ \E username \in LoginNames, password \in Passwords :
        auth' = [auth EXCEPT
                    !.form = [username |-> username, password |-> password],
                    !.login = login(AuthDb, username, password, auth.now),
                    !.issued_at = auth.now,
                    !.check = NoCheck,
                    !.checked_at = 0]
    /\ UNCHANGED <<svars, cvars, admitted, threads>>

\* the token of the last successful login is presented to /run
PresentToken ==
    /\ auth.login.status = 200
    /\ auth' = [auth EXCEPT
                    !.check = get_current_active_user(AuthDb, auth.login.access_token,
                                                      auth.now),
                    !.checked_at = auth.now]
    /\ UNCHANGED <<svars, cvars, admitted, threads>>

\* a minute passes at the service
AuthTick ==
    /\ auth.now < MaxAuthNow
    /\ auth' = [auth EXCEPT !.now = @ + 1]
    /\ UNCHANGED <<svars, cvars, admitted, threads>>

AuthNext ==
    \/ PostToken
    \/ PresentToken
    \/ AuthTick

Spec == Init /\ [][Next]_vars

AuthSpec == AuthInit /\ [][AuthNext]_vars

ConcSpec == ConcInit /\ [][ConcNext]_vars

SharedSpec == Init /\ [][SharedNext]_vars

WorkflowSpec == Init /\ [][WorkflowNext]_vars

ClientSpec == Init /\ [][ClientNext]_vars

(***************************************************************************)
(* Properties                                                              *)
(***************************************************************************)
Ended == call.pc \in {"returned", "raised"}

IsFailureResult(r) ==
    r.shape = "JobResult" /\ ~r.success /\ r.exit_code = 0 - 1 /\ r.stderr # ""

\* C1: a request that created its workspace directory leaves no trace of it when
\* the handler has finished, on every path the handler can take, and running the
\* removal step once more changes nothing.
C1_WorkspaceRemoved ==
    \A j \in Jobs :
        (job[j].pc = "done" /\ job[j].made) =>
            /\ ~path_exists(dirs, files, job[j].temp_dir)
            /\ \A p \in dirs \cup DOMAIN files : ~IsPrefix(job[j].temp_dir, p)
            /\ RemoveWorkspace(dirs, files, job[j].temp_dir) = [dirs |-> dirs, files |-> files]

\* a request whose staging wrote a file and then failed has finished
C1_Witness ==
    \E j \in Jobs :
        /\ job[j].pc = "done" /\ job[j].made
        /\ job[j].resp.status = 500 /\ job[j].resp.detail = "OSError"
        /\ Len(job[j].files) = 2

Rejectable(tok, now) ==
    tok = NoToken \/ tok.sig # SECRET_KEY \/ tok.exp < now \/ tok.sub = None

\* C3: a /run request with a missing, tampered, expired or subject-less token is
\* answered 401 in the step that receives it, and that step changes neither the
\* filesystem nor the container engine.
C3_BadTokenNoEffect ==
    [][\A j \in Jobs :
          (job[j].pc = "idle" /\ job'[j].pc # "idle"
              /\ Rejectable(job'[j].tok, job'[j].now)) =>
            /\ job'[j].pc = "done"
            /\ job'[j].resp.status = 401 /\ job'[j].resp.shape = "detail"
            /\ ~job'[j].made /\ job'[j].container = None
            /\ UNCHANGED <<dirs, files, engine>>]_vars

\* a request with a correctly signed but expired token has been answered
C3_Witness ==
    \E j \in Jobs :
        /\ job[j].pc = "done" /\ job[j].resp.status = 401
        /\ job[j].tok = IssuedToken /\ job[j].tok.exp < job[j].now

\* C4: a request with an empty command is never admitted past validation and no
\* container is ever launched with an empty command.
C4_EmptyCommandRejected ==
    \A j \in Jobs :
        /\ job[j].pc \in {"stage", "launch", "wait", "finally"} => job[j].command # ""
        /\ engine[j].status # "none" => engine[j].command # ""

\* the filename resolves outside the workspace root
Escapes(temp_dir, filename) ==
    ~IsPrefix(temp_dir, normpath(path_join(temp_dir, filename)))

\* C5: nothing outside the workspace roots is created or overwritten, and a request
\* with an escaping filename never gets past staging.
C5_NoPathEscape ==
    /\ \A p \in dirs : p \in {<<>>, cwd} \/ \E n \in Names : IsPrefix(TempDir(n), p)
    /\ \A p \in DOMAIN files :
           \/ p = <<"srv", "main.py">> /\ files[p] = "orig"
           \/ \E n \in Names : IsPrefix(TempDir(n), p)
    /\ \A j \in Jobs :
           job[j].pc \in {"launch", "wait"} =>
               \A i \in 1..Len(job[j].files) :
                   ~Escapes(job[j].temp_dir, job[j].files[i].filename)

\* C6: no container is still running once execution_timeout seconds have passed,
\* and a request whose container ran past the timeout is answered with
\* success=false, exit_code=-1 and a timeout message.
C6_TimeoutEnforced ==
    \A j \in Jobs :
        /\ engine[j].status = "running" => engine[j].elapsed <= ExecutionTimeout
        /\ (job[j].pc = "done" /\ engine[j].elapsed > ExecutionTimeout) =>
               /\ ~job[j].resp.success
               /\ job[j].resp.exit_code = 0 - 1
               /\ job[j].resp.stderr = "timeout"

\* the command invokes a test runner
IsTestRunner(command) == command = "pytest test_a.py -v"

\* C7: the result a call of runtime_node returns has success = true exactly when
\* the exit code is 0, or is 1 for a test-runner command.
C7_SuccessFlag ==
    (call.pc = "returned" /\ call.result.shape = "JobResult") =>
        (call.result.success <=>
            \/ call.result.exit_code = 0
            \/ call.result.exit_code = 1 /\ IsTestRunner(call.command))

\* the POST /token requests of the call that follow its first POST /run
ReauthPosts ==
    {i \in Sent("/token") : \E k \in Sent("/run") : k < i}

\* C8 as stated: after a 401 on the first POST /run there is exactly one
\* re-authentication and exactly one re-post; never more than two POST /run.
C8_ExactlyOneRetry ==
    /\ Cardinality(Sent("/run")) <= 2
    /\ (Ended /\ call.first = "401") =>
           /\ Cardinality(ReauthPosts) = 1
           /\ Cardinality(Sent("/run")) = 2
           /\ call.second = "401" => IsFailureResult(call.result)

\* C8 as amended: after a 401 on the first POST /run there is exactly one POST
\* /token; if it succeeds the same payload is posted exactly once more with the
\* new token, if it fails nothing is posted again; unless the retry is answered
\* with a result the call returns a failure result; no call sends more than two
\* POST /run, and only a 401 on the first leads to a second.
C8_OneReauthThenOneRetry ==
    /\ Cardinality(Sent("/run")) <= 2
    /\ call.first # "401" => Cardinality(Sent("/run")) <= 1
    /\ (Ended /\ call.first = "401") =>
           /\ call.pc = "returned"
           /\ Cardinality(ReauthPosts) = 1
           /\ call.reauth = "ok" =>
                  /\ Cardinality(Sent("/run")) = 2
                  /\ \A i, k \in Sent("/run") : call.sent[i].payload = call.sent[k].payload
                  /\ call.sent[Len(call.sent)] = RunRequest(cl.access_token, call.command)
           /\ call.reauth = "failed" =>
                  Cardinality(Sent("/run")) = 1 /\ IsFailureResult(call.result)
           /\ call.second # "200" => IsFailureResult(call.result)

\* a call has ended whose two POST /run were both answered 401
C8_Witness ==
    /\ Ended /\ call.first = "401" /\ call.second = "401"
    /\ Cardinality(Sent("/run")) = 2

\* C9: when the first POST /run is answered with an HTTP error other than 401, or
\* fails in transport, that very step ends the call with a failure result: this
\* POST is the only request it sends and the cached token and expiry are unchanged.
C9_NoRetryOnOtherErrors ==
    [][(call.pc = "post" /\ call'.pc # "post"
            /\ call'.first \in {"HTTP error", "RequestError"}) =>
          /\ call'.pc = "returned"
          /\ IsFailureResult(call'.result)
          /\ cl' = cl
          /\ call'.sent = Append(call.sent, RunRequest(cl.access_token, call.command))
          /\ \A i \in 1..Len(call.sent) : call.sent[i].url # "/run"]_vars

\* a call has returned after one POST /run that was answered with an HTTP error
C9_Witness ==
    /\ call.pc = "returned" /\ call.first = "HTTP error"
    /\ Cardinality(Sent("/run")) = 1 /\ Sent("/token") = {}

\* C10: a call of runtime_node with a non-empty command never ends with an
\* exception, and one that met a transport failure or an undecodable body
\* returns a failure result.
C10_NoExceptionEscapes ==
    call.command # "" =>
        /\ call.pc # "raised"
        /\ (call.pc = "returned"
               /\ (call.first \in {"RequestError", "200 badjson"}
                      \/ call.second \in {"RequestError", "200 badjson"})) =>
               IsFailureResult(call.result)

\* C11: every token that POST /token issues is accepted by the token check of
\* /run when presented at once, and resolves to the user who logged in,
\* whatever OAUTH_USERNAME is
C11_IssuedTokenAccepted ==
    (auth.login.status = 200 /\ auth.check # NoCheck /\ auth.checked_at = auth.issued_at)
        => (auth.check.ok /\ auth.check.user = auth.login.user)

\* the verdict on the issued token when it is presented at the time it was issued
VerdictAtIssue ==
    get_current_active_user(AuthDb, auth.login.access_token, auth.issued_at)

TokenPresented == auth.login.status = 200 /\ auth.check # NoCheck

StaleAtEntry == call.command \notin {None, ""} /\ cnow >= call.entry_expiry

\* the token POST /token hands out at the client's present time
FreshToken == create_access_token([sub |-> "agent_user"], TOKEN_EXPIRES, cnow)

\* C13: a call made with the cached token past its tracked expiry sends exactly
\* one POST /token before the POST /run; the job goes out with the new token,
\* and when the service answers it the call returns the job's result
C13_RefreshBeforeRun ==
    (Ended /\ StaleAtEntry) =>
        /\ call.sent # <<>> /\ call.sent[1] = TokenRequest
        /\ Len(call.sent) >= 2 =>
              /\ call.sent[2] = RunRequest(FreshToken, call.command)
              /\ cl.token_expiry = cnow + CLIENT_TOKEN_MINUTES
        /\ call.first = "200" =>
              /\ call.sent = <<TokenRequest, RunRequest(FreshToken, call.command)>>
              /\ call.pc = "returned"
              /\ \E r \in RunResponses :
                    /\ r.kind = "http" /\ r.status = 200 /\ r.json_ok
                    /\ call.result.exit_code = r.body.exit_code
                    /\ call.result.stdout = r.body.stdout
                    /\ call.result.stderr = r.body.stderr

C13_Witness ==
    /\ Ended /\ StaleAtEntry
    /\ cnow = CLIENT_TOKEN_MINUTES
    /\ call.first = "200"
    /\ call.result.exit_code = 0

\* where the i-th payload of job j is staged
StagedPath(j, i) == normpath(path_join(job[j].temp_dir, job[j].files[i].filename))

\* every filename of job j stays inside the job's workspace
AllInside(j) ==
    \A i \in 1..Len(job[j].files) : ~Escapes(job[j].temp_dir, job[j].files[i].filename)

\* staging of job j has just succeeded / has raised
Staged(j) == job[j].pc = "launch"
StagingFailed(j) == job[j].pc = "finally" /\ job[j].resp = HTTPError(500, "OSError")

\* every payload of job j can be read back with its own content
ReadsBack(j) ==
    \A i \in 1..Len(job[j].files) :
        /\ StagedPath(j, i) \in DOMAIN files
        /\ files[StagedPath(j, i)] = job[j].files[i].content

\* no two payloads of job j name the same file, none names a directory that
\* another one's file lies in
SeparateFiles(j) ==
    \A i, k \in 1..Len(job[j].files) :
        i # k => ~IsPrefix(StagedPath(j, i), StagedPath(j, k))

\* C14 as stated: for every list of payloads whose filenames stay inside the
\* workspace, staging succeeds and afterwards every payload's file exists under
\* the root and holds exactly that payload's content
C14_EveryPayloadReadsBack ==
    \A j \in Jobs :
        AllInside(j) => (~StagingFailed(j) /\ (Staged(j) => ReadsBack(j)))

\* C14 amended: the same, for lists in which no two payloads name the same file
\* and no payload's file is a directory on the path of another's
C14_SeparatePayloadsReadBack ==
    \A j \in Jobs :
        (AllInside(j) /\ SeparateFiles(j)) =>
            (~StagingFailed(j) /\ (Staged(j) => ReadsBack(j)))

C14_Witness ==
    \E j \in Jobs :
        /\ Staged(j) /\ AllInside(j) /\ SeparateFiles(j)
        /\ Len(job[j].files) = 2
        /\ \E d \in dirs : IsPrefix(job[j].temp_dir, d) /\ d # job[j].temp_dir

\* C15: an authenticated, valid request that got its workspace is answered with
\* a JobResult-shaped body whatever goes wrong while staging or running; the
\* only answers of another shape are authorization and validation errors
C15_ErrorsAsJobResult ==
    \A j \in Jobs :
        job[j].pc = "done" =>
            /\ job[j].made => job[j].resp.shape = "JobResult"
            /\ job[j].resp.shape # "JobResult" => job[j].resp.status \in {400, 401, 422}

\* the parent directories named in the filenames of job j, as PYTHONPATH entries
ParentEntries(j) ==
    {AppRoot \o path_dirname(job[j].files[i].filename) :
        i \in {k \in 1..Len(job[j].files) : Len(job[j].files[k].filename) > 1}}

\* C19: the PYTHONPATH a container is given consists of /app and of one entry
\* /app/<dir> for each distinct non-empty parent directory among the submitted
\* filenames: every one is there, none twice, and nothing else
C19_PythonPath ==
    \A j \in Jobs :
        engine[j].status # "none" =>
            /\ Range(engine[j].PYTHONPATH) = {AppRoot} \cup ParentEntries(j)
            /\ Len(engine[j].PYTHONPATH) = Cardinality({AppRoot} \cup ParentEntries(j))

C19_Witness ==
    \E j \in Jobs :
        /\ engine[j].status = "running"
        /\ Len(job[j].files) = 2
        /\ job[j].files[1].filename = <<"pkg", "t.py">>
        /\ job[j].files[2].filename = <<"pkg", "u.py">>
        /\ engine[j].PYTHONPATH = <<AppRoot \o <<"pkg">>, AppRoot>>

\* C20: every container runs with every field of the resource policy applied:
\* the CPU, memory and process limits, and the network setting, the read-only
\* root with its tmpfs, the capability drop and no-new-privileges as declared
C20_PolicyApplied ==
    \A j \in Jobs :
        engine[j].status # "none" =>
            LET got == engine[j].settings
                policy == ContainerConfig
            IN  /\ got.cpu_quota = policy.cpu_quota
                /\ got.cpu_period = policy.cpu_period
                /\ got.cpu_shares = policy.cpu_shares
                /\ got.mem_limit = policy.memory_limit
                /\ got.memswap_limit = policy.memory_swap
                /\ got.mem_reservation = policy.memory_reservation
                /\ got.pids_limit = policy.pids_limit
                /\ got.network_disabled = ~policy.enable_network
                /\ got.read_only = policy.read_only_root
                /\ policy.read_only_root => got.tmpfs = policy.tmpfs_size
                /\ policy.drop_all_capabilities => got.cap_drop = {"ALL"}
                /\ policy.no_new_privileges => got.security_opt = {"no-new-privileges"}

\* containers.run was called for job j and gave no container
LaunchFailed(j) == job[j].launches > 0 /\ job[j].container = None

InProgress(j) == job[j].made /\ job[j].pc \in {"stage", "launch", "wait", "finally"}

\* C17: two requests in progress at the same time never have the same workspace
\* root, and the workspace of a request that is still at work exists: no other
\* request has deleted or replaced it
C17_SeparateWorkspaces ==
    \A j, k \in ConcJobs :
        /\ (j # k /\ InProgress(j) /\ InProgress(k)) => job[j].temp_dir # job[k].temp_dir
        /\ (job[j].made /\ job[j].pc \in {"stage", "launch", "wait"}) => job[j].temp_dir \in dirs
        /\ (job[j].made /\ job[j].pc \in {"launch", "wait"}) =>
               \A i \in 1..Len(job[j].files) : StagedPath(j, i) \in DOMAIN files

\* C18: no more than max_jobs_per_minute requests are admitted within a minute
C18_RateLimited == admitted <= MAX_JOBS_PER_MINUTE

\* C21: of two callers that share the client and find the same cached token
\* expired, only one replaces it, and the tokens the two then put into their
\* headers are the same
C21_OneRefresh ==
    \A t, u \in Callers :
        (t # u /\ threads[t].stale # NoExpiry /\ threads[t].stale = threads[u].stale) =>
            /\ ~(threads[t].refreshed /\ threads[u].refreshed)
            /\ (threads[t].token # NoToken /\ threads[u].token # NoToken) =>
                   threads[t].token = threads[u].token

\* C22: the tracked expiry of the cached token is earlier than the token's own
\* expiry; once the headers are built the clock is before the tracked expiry;
\* and no token is expired for the server at the moment it is attached
C22_RefreshedBeforeServerExpiry ==
    /\ cl.token_expiry < cl.access_token.exp
    /\ cnow < cl.token_expiry => jwt_decode(cl.access_token, cnow).ok
    /\ call.pc = "post" => cnow < cl.token_expiry
    /\ \A i \in Sent("/run") : jwt_decode(call.sent[i].token, cnow).ok

C22_Witness ==
    /\ Sent("/run") # {}
    /\ cnow = CLIENT_TOKEN_MINUTES - 1
    /\ cl.token_expiry = CLIENT_TOKEN_MINUTES
    /\ call.sent[1] = RunRequest(cl.access_token, call.command)

\* the answer of /token to a login that is refused
Refusal ==
    [status |-> 401, detail |-> "Incorrect username or password",
     www_authenticate |-> "Bearer", access_token |-> NoToken, user |-> NoUser]

UnknownUsername == auth.form # NoForm /\ auth.form.username \notin DOMAIN AuthDb

WrongPassword ==
    /\ auth.form # NoForm
    /\ auth.form.username \in DOMAIN AuthDb
    /\ ~verify_password(auth.form.password, AuthDb[auth.form.username].hashed_password)

\* C23: a POST /token with an unknown username and one with a known username
\* and a wrong password get one and the same answer, status, detail and
\* headers, and no token
C23_SameRefusal ==
    (UnknownUsername \/ WrongPassword) => auth.login = Refusal

C23_Witness == WrongPassword /\ auth.login.status = 401

First72(p) == [i \in 1..(IF Len(p) < BCRYPT_MAX_BYTES THEN Len(p) ELSE BCRYPT_MAX_BYTES) |-> p[i]]

\* C27: a password verifies against its own hash, and whether a password is
\* accepted for the configured one depends on the first 72 bytes of the two
\* and on nothing else
C27_First72BytesDecide ==
    (auth.form # NoForm /\ auth.form.username \in DOMAIN AuthDb) =>
        /\ verify_password(auth.form.password, hash_password(auth.form.password))
        /\ auth.login.status = 200 <=>
              First72(auth.form.password) = First72(auth.oauth_password)

C27_Witness ==
    /\ auth.oauth_password = Long73a
    /\ auth.form.password = Long73b
    /\ auth.login.status = 200

\* C25: a container is launched only after staging has gone through, with every
\* submitted file written; a request whose staging raised launches no
\* container and still has its workspace removed
C25_StageThenExecute ==
    \A j \in Jobs :
        /\ job[j].launches > 0 => job[j].python_path # <<>>
        /\ job[j].pc = "wait" =>
               \A i \in 1..Len(job[j].files) : StagedPath(j, i) \in DOMAIN files
        /\ job[j].resp = HTTPError(500, "OSError") =>
               /\ job[j].launches = 0
               /\ engine[j].status = "none"
               /\ job[j].pc = "done" => ~path_exists(dirs, files, job[j].temp_dir)

C25_Witness ==
    \E j \in Jobs :
        /\ job[j].pc = "done"
        /\ job[j].made
        /\ job[j].resp = HTTPError(500, "OSError")

\* C26: every POST /run of the orchestration pipeline carries the bearer token
\* of its client: no job is posted without a token
C26_EveryRunCarriesToken ==
    \A i \in Sent("/run") : call.sent[i].token # NoToken

\* C28: a 200 answer is stored in execution_results with the same success
\* value whether it came on the first POST /run or on the retry after a 401
C28_SameClassification ==
    (call.pc = "returned" /\ call.second = "200") =>
        \E r \in RunResponses :
            /\ r.kind = "http" /\ r.status = 200 /\ r.json_ok
            /\ call.result.exit_code = r.body.exit_code
            /\ call.result = FirstAnswer([IdleCall EXCEPT !.pc = "post"], r).result

\* C29: runtime_node with an empty command returns in that step a result with
\* success = false, has sent no request, and leaves the cached token and its
\* expiry as they were
C29_EmptyCommandNoRequest ==
    [][(call.pc = "idle" /\ call'.command = "") =>
            (/\ call'.pc = "returned"
             /\ call'.sent = <<>>
             /\ call'.result.success = FALSE
             /\ call'.result.shape # "none"
             /\ cl' = cl)]_vars

C29_Witness ==
    /\ call.command = ""
    /\ call.pc = "returned"
    /\ cnow >= cl.token_expiry

\* the step sends a POST /token
PostsToken == Cardinality(Sent("/token"))' > Cardinality(Sent("/token"))

\* C30: the cached token and its expiry are both present and belong to one
\* answer of /token; a step changes them only by a POST /token, and then to the
\* token and the expiry of that answer; an attempt that fails leaves both as
\* they were
C30_TokenAndExpiryTogether ==
    /\ [](/\ cl.access_token # NoToken
          /\ cl.token_expiry # NoExpiry
          /\ cl.token_expiry = cl.access_token.exp - TOKEN_EXPIRES + CLIENT_TOKEN_MINUTES)
    /\ [][/\ (cl' # cl) =>
                 (/\ PostsToken
                  /\ cl' = [access_token |-> FreshToken,
                            token_expiry |-> cnow + CLIENT_TOKEN_MINUTES])
          /\ (PostsToken /\ (call'.pc = "raised" \/ call'.reauth = "failed")) =>
                 (cl' = cl)]_vars

C30_Witness ==
    /\ call.reauth = "failed"
    /\ cnow > 0
    /\ cl.token_expiry = CLIENT_TOKEN_MINUTES

====
